---- MODULE Spec2Model ----
(***************************************************************************)
(* kafkian.Producer (src/kafkian/producer.py): a wrapper around the        *)
(* confluent_kafka producer with pluggable key/value serializers, delivery *)
(* callbacks and a flush at process exit.                                  *)
(*                                                                         *)
(* The wrapped client (self._producer_impl) is modelled by its local       *)
(* outbound queue, the queue of delivery reports it has not served yet and *)
(* the broker log.  Delivery reports are served, i.e. the configured       *)
(* on_delivery callback is invoked, only from inside poll() and flush().   *)
(***************************************************************************)
EXTENDS Integers, Sequences, FiniteSets, TLC

\* ------------------------------------------------------------------ bounds
MaxSends == 2          \* number of produce() calls in one run
NumPartitions == 2     \* partitions of every topic

\* ----------------------------------------------------------- python values
\* A Python object passed as key or value: its type and its content.
Bytes(d) == [type |-> "bytes", data |-> d]
Str(d) == [type |-> "str", data |-> d]
None == [type |-> "NoneType", data |-> <<>>]

\* KafkaError objects and the err=None of a successful delivery report.
NoError == "None"
KafkaError == "KafkaError{_MSG_TIMED_OUT}"

Topics == {"orders", "audit"}
Keys == {Bytes(<<1>>), Bytes(<<2>>), Str(<<3>>)}
\* The (topic, key) pairs the caller sends to.
Destinations ==
    { <<"orders", Bytes(<<1>>)>>, <<"orders", Bytes(<<2>>)>>,
      <<"audit", Bytes(<<1>>)>>, <<"audit", Str(<<3>>)>> }
Values == {Bytes(<<7>>), Str(<<9>>), None}
Timeouts == {-1, 0, 5}   \* -1 stands for timeout=None

\* -------------------------------------------------------------- serializers
\* kafkian.serde.serialization.Serializer: passthrough of encoded bytes,
\* UnsupportedTypeError for anything it cannot encode.
DefaultSerialize(value, topic, is_key) ==
    IF value.type = "bytes"
    THEN [ok |-> TRUE, out |-> value]
    ELSE [ok |-> FALSE, out |-> value]

\* A schema based serializer: frames the payload with a magic byte and the
\* id of the subject, which depends on the topic and on the role.
SubjectId(topic, is_key) ==
    (IF topic = "orders" THEN 1 ELSE 3) + (IF is_key THEN 0 ELSE 1)

FramingSerialize(value, topic, is_key) ==
    IF value.type \in {"bytes", "str"}
    THEN [ok |-> TRUE, out |-> Bytes(<<0, SubjectId(topic, is_key)>> \o value.data)]
    ELSE [ok |-> FALSE, out |-> value]

Serializers == {"Serializer", "FramingSerializer"}

serialize(ser, value, topic, is_key) ==
    IF ser = "Serializer"
    THEN DefaultSerialize(value, topic, is_key)
    ELSE FramingSerialize(value, topic, is_key)

\* ------------------------------------------------------------ configuration
HostName == "host-1"

\* Mutant of DEFAULT_CONFIG: five requests in flight.
DEFAULT_CONFIG_five_in_flight ==
    [k \in {"acks", "api.version.request", "client.id", "log.connection.close",
            "max.in.flight", "queue.buffering.max.ms", "statistics.interval.ms"} |->
        CASE k = "acks" -> "all"
          [] k = "api.version.request" -> "True"
          [] k = "client.id" -> HostName
          [] k = "log.connection.close" -> "False"
          [] k = "max.in.flight" -> "5"
          [] k = "queue.buffering.max.ms" -> "100"
          [] k = "statistics.interval.ms" -> "15000"]

DEFAULT_CONFIG ==
    [k \in {"acks", "api.version.request", "client.id", "log.connection.close",
            "max.in.flight", "queue.buffering.max.ms", "statistics.interval.ms"} |->
        CASE k = "acks" -> "all"
          [] k = "api.version.request" -> "True"
          [] k = "client.id" -> HostName
          [] k = "log.connection.close" -> "False"
          [] k = "max.in.flight" -> "1"
          [] k = "queue.buffering.max.ms" -> "100"
          [] k = "statistics.interval.ms" -> "15000"]

\* Mutant of DictMerge: the left operand wins on a key collision.
DictMerge_left_biased(a, b) ==
    [k \in (DOMAIN a) \cup (DOMAIN b) |-> IF k \in DOMAIN a THEN a[k] ELSE b[k]]

\* {**a, **b}
DictMerge(a, b) ==
    [k \in (DOMAIN a) \cup (DOMAIN b) |-> IF k \in DOMAIN b THEN b[k] ELSE a[k]]

\* d[k] = v
DictSet(d, k, v) ==
    [x \in (DOMAIN d) \cup {k} |-> IF x = k THEN v ELSE d[x]]

\* Mutant of BuildConfig: the caller's configuration is merged after the
\* callbacks are set.
BuildConfig_caller_last(cfg) ==
    LET c1 == DictSet(DEFAULT_CONFIG, "on_delivery", "Producer._on_delivery")
        c2 == DictSet(c1, "error_cb", "Producer._on_error")
        c3 == DictSet(c2, "throttle_cb", "Producer._on_throttle")
    IN  DictMerge(DictSet(c3, "stats_cb", "Producer._on_stats"), cfg)

\* The configuration Producer.__init__ hands to the client.
BuildConfig(cfg) ==
    LET merged == DictMerge(DEFAULT_CONFIG, cfg)
        c1 == DictSet(merged, "on_delivery", "Producer._on_delivery")
        c2 == DictSet(c1, "error_cb", "Producer._on_error")
        c3 == DictSet(c2, "throttle_cb", "Producer._on_throttle")
    IN  DictSet(c3, "stats_cb", "Producer._on_stats")

EmptyDict == [k \in {} |-> ""]

\* Caller configurations tried by the model.
BootstrapOnly == [k \in {"bootstrap.servers"} |-> "localhost:29092"]
UserConfigs ==
    { BootstrapOnly,
      [k \in {"bootstrap.servers", "max.in.flight", "acks", "client.id"} |->
          CASE k = "max.in.flight" -> "5"
            [] k = "acks" -> "1"
            [] k = "client.id" -> "svc"
            [] OTHER -> "localhost:29092"],
      [k \in {"bootstrap.servers", "on_delivery", "error_cb", "throttle_cb", "stats_cb",
               "queue.buffering.max.messages"} |->
          CASE k = "bootstrap.servers" -> "localhost:29092"
            [] k = "queue.buffering.max.messages" -> "1"
            [] OTHER -> "user_cb"],
      [k \in {"bootstrap.servers", "no.such.property"} |->
          IF k = "bootstrap.servers" THEN "localhost:29092" ELSE "x"] }

\* Observers: one that returns and one that raises.  None and the empty list
\* are both falsy in _on_delivery and are modelled by the empty sequence.
CallbackLists == { <<>>, <<"returns", "returns">>, <<"raises", "returns">> }

\* The arguments of Producer.__init__ tried by the model: the defaults with
\* every caller configuration, and serializers and observer lists with the
\* plain configuration.
Constructions ==
    { [cfg |-> c, vs |-> "Serializer", ks |-> "Serializer", scb |-> <<>>, ecb |-> <<>>] :
        c \in UserConfigs }
    \cup
    { [cfg |-> BootstrapOnly, vs |-> "FramingSerializer", ks |-> "FramingSerializer",
       scb |-> <<>>, ecb |-> <<>>] }
    \cup
    { [cfg |-> BootstrapOnly, vs |-> "Serializer", ks |-> "Serializer",
       scb |-> cbs, ecb |-> cbs] : cbs \in CallbackLists }

\* ------------------------------------------------------------------- state
VARIABLES
    pc,                 \* where the calling thread is
    hook,               \* where the exit hook is, or how it ended
    flushCtx,           \* who called the flush that is running
    flushArg,           \* timeout argument of the flush that is running
    implTimeout,        \* timeout handed to _producer_impl.flush
    result,             \* how the last call of the caller ended
    userConfig,         \* the config argument of __init__
    value_serializer, key_serializer,
    success_callbacks, error_callbacks,
    atexit_registered,  \* atexit holds self._close
    has_impl,           \* self._producer_impl is set
    implConfig,         \* configuration of self._producer_impl
    queue,              \* messages queued in the client, not yet delivered
    reports,            \* delivery reports not yet served
    topicLog,           \* messages the broker has accepted, in order
    sends,              \* history: produce() calls
    serCalls,           \* history: serializer invocations
    dispatched,         \* history: _on_delivery invocations
    obsCalls            \* history: observer invocations

callerVars == <<pc, flushCtx, flushArg, implTimeout, result>>
fieldVars == <<userConfig, value_serializer, key_serializer, success_callbacks,
               error_callbacks, atexit_registered, has_impl, implConfig>>
implVars == <<queue, reports, topicLog>>
histVars == <<sends, serCalls, dispatched, obsCalls>>
vars == <<callerVars, hook, fieldVars, implVars, histVars>>

\* The exit hook has run.
closed == hook \notin {"idle", "flush"}

\* How a call ended: the exception it raised, what it returned, the timeout
\* argument it was given and the timeout it handed to the client.
Ok(op) == [op |-> op, exc |-> "None", ret |-> 0, arg |-> -1, timeout |-> -1]
Raised(op, e) == [op |-> op, exc |-> e, ret |-> 0, arg |-> -1, timeout |-> -1]

Init ==
    /\ pc = "init"
    /\ hook = "idle"
    /\ flushCtx = "none"
    /\ flushArg = -1
    /\ implTimeout = -1
    /\ result = Ok("none")
    /\ userConfig = EmptyDict
    /\ value_serializer = "Serializer"
    /\ key_serializer = "Serializer"
    /\ success_callbacks = <<>>
    /\ error_callbacks = <<>>
    /\ atexit_registered = FALSE
    /\ has_impl = FALSE
    /\ implConfig = EmptyDict
    /\ queue = <<>>
    /\ reports = <<>>
    /\ topicLog = <<>>
    /\ sends = <<>>
    /\ serCalls = <<>>
    /\ dispatched = <<>>
    /\ obsCalls = <<>>

\* _init_producer_impl: the client rejects a configuration with a property
\* it does not know.
ImplAccepts(config) == "no.such.property" \notin DOMAIN config

\* Producer.__init__: the exit hook is registered, then the client is
\* constructed; if that raises, the caller gets no Producer.
Construct(cfg, vs, ks, scb, ecb) ==
    /\ pc = "init"
    /\ value_serializer' = vs
    /\ key_serializer' = ks
    /\ success_callbacks' = scb
    /\ error_callbacks' = ecb
    /\ userConfig' = cfg
    /\ atexit_registered' = TRUE
    /\ implConfig' = BuildConfig(cfg)
    /\ has_impl' = ImplAccepts(BuildConfig(cfg))
    /\ pc' = "idle"
    /\ result' = IF ImplAccepts(BuildConfig(cfg)) THEN Ok("__init__")
                 ELSE Raised("__init__", "KafkaException")
    /\ UNCHANGED <<hook, flushCtx, flushArg, implTimeout, implVars, histVars>>

\* -------------------------------------------------------------- the client
RECURSIVE SumBytes(_)
SumBytes(d) == IF d = <<>> THEN 0 ELSE Head(d) + SumBytes(Tail(d))

\* The partitioner of the client: a hash of the key bytes.
Partitioner(key) == SumBytes(key.data) % NumPartitions

Message(id, topic, key, value) ==
    [id |-> id, topic |-> topic, partition |-> Partitioner(key),
     key |-> key, value |-> value]

\* _producer_impl.produce(topic=, value=, key=): appends to the local queue.
impl_produce(q, id, topic, value, key) == Append(q, Message(id, topic, key, value))

\* Mutant of _produce: key and value handed over in each other's place.
_produce_swapped(q, id, topic, key, value) == impl_produce(q, id, topic, key, value)

\* Producer._produce
_produce(q, id, topic, key, value) == impl_produce(q, id, topic, value, key)

\* queue.buffering.max.messages: the messages the client holds, queued or
\* with an unserved delivery report, before produce raises BufferError.
QueueFull ==
    /\ "queue.buffering.max.messages" \in DOMAIN implConfig
    /\ implConfig["queue.buffering.max.messages"] = "1"
    /\ Len(queue) + Len(reports) >= 1

SamePartition(m, n) == m.topic = n.topic /\ m.partition = n.partition

\* Indexes of the queued messages whose outcome the broker may report next:
\* with max.in.flight = 1 only the oldest queued message of a partition, with
\* more requests in flight a retried request may be overtaken by a later one.
Deliverable ==
    { i \in 1..Len(queue) :
        \/ implConfig["max.in.flight"] # "1"
        \/ \A j \in 1..(i - 1) : ~SamePartition(queue[j], queue[i]) }

RemoveAt(s, i) == SubSeq(s, 1, i - 1) \o SubSeq(s, i + 1, Len(s))

\* The broker acknowledges or rejects a queued message; the client queues the
\* delivery report until poll() or flush() serves it.
Deliver(i, err) ==
    /\ pc \in {"idle", "flush"}
    /\ has_impl
    /\ i \in Deliverable
    /\ queue' = RemoveAt(queue, i)
    /\ reports' = Append(reports, [msg |-> queue[i], err |-> err])
    /\ topicLog' = IF err = NoError THEN Append(topicLog, queue[i]) ELSE topicLog
    /\ UNCHANGED <<callerVars, hook, fieldVars, histVars>>

\* ------------------------------------------------------------ the producer
\* Calls cbs[i..] in order; an observer that raises ends the loop.
RECURSIVE CallObservers(_, _, _, _)
CallObservers(cbs, i, call, acc) ==
    IF i > Len(cbs)
    THEN [calls |-> acc, raised |-> FALSE]
    ELSE LET made == Append(acc, [call EXCEPT !.idx = i])
         IN  IF cbs[i] = "raises"
             THEN [calls |-> made, raised |-> TRUE]
             ELSE CallObservers(cbs, i + 1, call, made)

NoMessage == Message(0, "", Bytes(<<>>), None)

\* cb(msg, err)
ErrorCall(msg, err) ==
    [list |-> "error_callbacks", idx |-> 0, for |-> msg.id, argc |-> 2,
     first |-> "msg", msg |-> msg, err |-> err]

\* cb(err)
SuccessCall(msg, err) ==
    [list |-> "success_callbacks", idx |-> 0, for |-> msg.id, argc |-> 1,
     first |-> "err", msg |-> NoMessage, err |-> err]

\* Producer._on_delivery(err, msg): the log call it makes and the observers
\* it invokes.
_on_delivery(err, msg) ==
    IF err # NoError
    THEN LET r == CallObservers(error_callbacks, 1, ErrorCall(msg, err), <<>>)
         IN  [level |-> "warning", calls |-> r.calls, raised |-> r.raised]
    ELSE LET r == CallObservers(success_callbacks, 1, SuccessCall(msg, err), <<>>)
         IN  [level |-> "debug", calls |-> r.calls, raised |-> r.raised]

\* Mutant of serialize_value: the tombstone goes through the value serializer.
serialize_value_always(value, topic) ==
    [called |-> TRUE,
     r |-> [ok |-> TRUE, out |-> serialize(value_serializer, value, topic, FALSE).out]]

\* produce, lines 75-77: a value of None is a tombstone and is passed
\* through, any other value goes through the value serializer.
serialize_value(value, topic) ==
    IF value # None
    THEN [called |-> TRUE, r |-> serialize(value_serializer, value, topic, FALSE)]
    ELSE [called |-> FALSE, r |-> [ok |-> TRUE, out |-> value]]

\* Mutant of ProduceRaises: the exception is raised from inside a flush.
ProduceRaises_flushes(e) ==
    /\ pc' = "flush"
    /\ flushCtx' = "produce"
    /\ UNCHANGED <<queue, result, flushArg, implTimeout>>

\* Mutant of ProduceRaises: the exception is swallowed.
ProduceRaises_swallowed(e) ==
    /\ result' = Ok("produce")
    /\ UNCHANGED <<queue, pc, flushCtx, flushArg, implTimeout>>

\* Mutant of FlushIfSync: the flush of a sync send has a timeout.
FlushIfSync_timed(sync) ==
    IF sync
    THEN /\ pc' = "flush"
         /\ flushCtx' = "produce"
         /\ flushArg' = 5
         /\ implTimeout' = 5
         /\ UNCHANGED result
    ELSE /\ result' = Ok("produce")
         /\ UNCHANGED <<pc, flushCtx, flushArg, implTimeout>>

\* Mutant of FlushIfSync: the send returns without a flush.
FlushIfSync_never(sync) ==
    /\ result' = Ok("produce")
    /\ UNCHANGED <<pc, flushCtx, flushArg, implTimeout>>

\* produce, lines 79-80: a sync send calls flush() before it returns.
FlushIfSync(sync) ==
    IF sync
    THEN /\ pc' = "flush"
         /\ flushCtx' = "produce"
         /\ flushArg' = -1
         /\ implTimeout' = -1
         /\ UNCHANGED result
    ELSE /\ result' = Ok("produce")
         /\ UNCHANGED <<pc, flushCtx, flushArg, implTimeout>>

\* An exception raised inside produce() before the flush: it propagates to
\* the caller and nothing else happens.
ProduceRaises(e) ==
    /\ result' = Raised("produce", e)
    /\ UNCHANGED <<queue, pc, flushCtx, flushArg, implTimeout>>

\* Producer.produce
produce(topic, key, value, sync) ==
    /\ pc = "idle"
    /\ has_impl
    /\ Len(sends) < MaxSends
    /\ LET id == Len(sends) + 1
           k == serialize(key_serializer, key, topic, TRUE)
           kcall == [send |-> id, role |-> "key", ser |-> key_serializer]
           v == IF k.ok THEN serialize_value(value, topic)
                ELSE [called |-> FALSE, r |-> [ok |-> FALSE, out |-> value]]
           vcalls == IF v.called
                     THEN <<[send |-> id, role |-> "value", ser |-> value_serializer]>>
                     ELSE <<>>
           exc == CASE ~(k.ok /\ v.r.ok) -> "SerializationError"
                    [] k.ok /\ v.r.ok /\ QueueFull -> "BufferError"
                    [] OTHER -> "None"
       IN  /\ serCalls' = Append(serCalls, kcall) \o vcalls
           /\ sends' = Append(sends, [id |-> id, topic |-> topic, key |-> key,
                                      value |-> value, sync |-> sync,
                                      enqueued |-> (exc = "None"), exc |-> exc,
                                      closed |-> closed])
           /\ IF exc = "None"
              THEN /\ queue' = _produce(queue, id, topic, k.out, v.r.out)
                   /\ FlushIfSync(sync)
              ELSE ProduceRaises(exc)
    /\ UNCHANGED <<hook, fieldVars, reports, topicLog, dispatched, obsCalls>>

\* Producer.flush(timeout), up to the call of _producer_impl.flush.  The
\* model has no caller of flush() or poll() once the exit hook has run.
flush(timeout) ==
    /\ pc = "idle"
    /\ ~closed
    /\ has_impl
    /\ pc' = "flush"
    /\ flushCtx' = "caller"
    /\ flushArg' = timeout
    /\ implTimeout' = IF timeout # -1 /\ timeout # 0 THEN timeout ELSE -1
    /\ UNCHANGED <<hook, result, fieldVars, implVars, histVars>>

\* Process exit: atexit runs Producer._close, which calls flush(); without a
\* _producer_impl attribute that raises AttributeError.  The caller may be a
\* thread that is inside flush() at that time.
_close ==
    /\ pc \in {"idle", "flush"}
    /\ hook = "idle"
    /\ atexit_registered
    /\ hook' = IF has_impl THEN "flush" ELSE "AttributeError"
    /\ UNCHANGED <<callerVars, fieldVars, implVars, histVars>>

\* The exit hooks have run and the process ends.
Terminate ==
    /\ pc \in {"idle", "flush"}
    /\ closed
    /\ pc' = "terminated"
    /\ UNCHANGED <<hook, flushCtx, flushArg, implTimeout, result, fieldVars,
                   implVars, histVars>>

\* The flush the caller is in returns or raises e.
Return(e) ==
    /\ pc' = "idle"
    /\ flushCtx' = "none"
    /\ flushArg' = -1
    /\ implTimeout' = -1
    /\ result' =
         [op |-> IF flushCtx = "produce" THEN "produce" ELSE "flush",
          exc |-> e, ret |-> 0, arg |-> flushArg, timeout |-> implTimeout]

\* The client serves delivery reports, oldest first, by calling the callback
\* its configuration binds to on_delivery.  An exception of the callback ends
\* the serving; the reports not served stay queued.
RECURSIVE ServeAll(_, _)
ServeAll(rs, acc) ==
    IF rs = <<>>
    THEN [acc EXCEPT !.rest = rs]
    ELSE LET r == Head(rs)
             own == implConfig["on_delivery"] = "Producer._on_delivery"
             d == _on_delivery(r.err, r.msg)
             now == [acc EXCEPT
                       !.n = @ + 1,
                       !.disp = IF own
                                THEN Append(@, [msg |-> r.msg, err |-> r.err,
                                                level |-> d.level])
                                ELSE @,
                       !.calls = IF own THEN @ \o d.calls ELSE @]
         IN  IF own /\ d.raised
             THEN [now EXCEPT !.raised = TRUE, !.rest = Tail(rs)]
             ELSE ServeAll(Tail(rs), now)

Served == ServeAll(reports, [n |-> 0, disp |-> <<>>, calls |-> <<>>,
                             raised |-> FALSE, rest |-> <<>>])

\* Inside _producer_impl.flush: the delivery reports that are ready are served.
ServeReports ==
    /\ pc = "flush"
    /\ reports # <<>>
    /\ reports' = Served.rest
    /\ dispatched' = dispatched \o Served.disp
    /\ obsCalls' = obsCalls \o Served.calls
    /\ IF Served.raised
       THEN Return("ObserverError")
       ELSE UNCHANGED callerVars
    /\ UNCHANGED <<hook, fieldVars, queue, topicLog, sends, serCalls>>

\* The same inside the flush of the exit hook; an exception ends the hook.
HookServeReports ==
    /\ pc # "terminated"
    /\ hook = "flush"
    /\ reports # <<>>
    /\ reports' = Served.rest
    /\ dispatched' = dispatched \o Served.disp
    /\ obsCalls' = obsCalls \o Served.calls
    /\ hook' = IF Served.raised THEN "ObserverError" ELSE hook
    /\ UNCHANGED <<callerVars, fieldVars, queue, topicLog, sends, serCalls>>

\* The flush of the exit hook returns: nothing is queued or unserved.
HookReturn ==
    /\ pc # "terminated"
    /\ hook = "flush"
    /\ queue = <<>>
    /\ reports = <<>>
    /\ hook' = "done"
    /\ UNCHANGED <<callerVars, fieldVars, implVars, histVars>>

\* Producer.poll(timeout): _producer_impl.poll serves the delivery reports
\* that are ready and returns how many callbacks it served.
poll(timeout) ==
    /\ pc = "idle"
    /\ ~closed
    /\ has_impl
    /\ LET tmo == IF timeout # -1 /\ timeout # 0 THEN timeout ELSE 1
       IN  result' = IF Served.raised
                     THEN [op |-> "poll", exc |-> "ObserverError", ret |-> 0,
                           arg |-> timeout, timeout |-> tmo]
                     ELSE [op |-> "poll", exc |-> "None", ret |-> Served.n,
                           arg |-> timeout, timeout |-> tmo]
    /\ reports' = Served.rest
    /\ dispatched' = dispatched \o Served.disp
    /\ obsCalls' = obsCalls \o Served.calls
    /\ UNCHANGED <<pc, hook, flushCtx, flushArg, implTimeout, fieldVars, queue,
                   topicLog, sends, serCalls>>

\* Mutant of FlushReturn: a flush with nothing to wait for raises.
FlushReturn_raises ==
    /\ pc = "flush"
    /\ queue = <<>>
    /\ reports = <<>>
    /\ Return("KafkaException")
    /\ UNCHANGED <<hook, fieldVars, implVars, histVars>>

\* _producer_impl.flush returns: nothing is queued and nothing is unserved.
FlushReturn ==
    /\ pc = "flush"
    /\ queue = <<>>
    /\ reports = <<>>
    /\ Return("None")
    /\ UNCHANGED <<hook, fieldVars, implVars, histVars>>

\* _producer_impl.flush(timeout) returns because the timeout has elapsed.
FlushTimeout ==
    /\ pc = "flush"
    /\ implTimeout # -1
    /\ ~(queue = <<>> /\ reports = <<>>)
    /\ Return("None")
    /\ UNCHANGED <<hook, fieldVars, implVars, histVars>>

Next ==
    \/ \E a \in Constructions : Construct(a.cfg, a.vs, a.ks, a.scb, a.ecb)
    \/ \E d \in Destinations, value \in Values, sync \in BOOLEAN :
          produce(d[1], d[2], value, sync)
    \/ \E timeout \in Timeouts : flush(timeout)
    \/ \E timeout \in Timeouts : poll(timeout)
    \/ _close
    \/ Terminate
    \/ \E i \in 1..MaxSends, err \in {NoError, KafkaError} : Deliver(i, err)
    \/ ServeReports
    \/ HookServeReports
    \/ HookReturn
    \/ FlushReturn
    \/ FlushTimeout

Spec == Init /\ [][Next]_vars

\* ------------------------------------------------------------- properties
Range(f) == { f[i] : i \in DOMAIN f }

\* Every copy of the message of send number id that the client, the broker or
\* the dispatcher holds.
Copies(id) ==
    { m \in Range(queue) \cup { r.msg : r \in Range(reports) }
            \cup { d.msg : d \in Range(dispatched) } \cup Range(topicLog) : m.id = id }

DispatchCount(id) == Cardinality({ i \in DOMAIN dispatched : dispatched[i].msg.id = id })

Dispatched(id) == DispatchCount(id) > 0

Consumed(id) == \E m \in Range(topicLog) : m.id = id

ValueSerializerCalled(id) ==
    \E c \in Range(serCalls) : c.send = id /\ c.role = "value"

\* C1, as stated: a send with an absent value never invokes the value
\* serializer, and the message handed to the client, and the outcome later
\* dispatched or consumed for it, carries an absent value and the caller's key
\* unchanged.
C1_TombstoneCallerKey ==
    \A s \in Range(sends) :
        s.value = None =>
            /\ ~ValueSerializerCalled(s.id)
            /\ \A m \in Copies(s.id) : m.value = None /\ m.key = s.key

\* C1, amended: a send with an absent value never invokes the value
\* serializer, and the message handed to the client, dispatched or consumed for
\* it carries an absent value and the key the key serializer made of the
\* caller's key, which is the caller's key unchanged under the default
\* Serializer.
C1_Tombstone ==
    \A s \in Range(sends) :
        s.value = None =>
            /\ ~ValueSerializerCalled(s.id)
            /\ s.enqueued => Copies(s.id) # {}
            /\ \A m \in Copies(s.id) :
                /\ m.value = None
                /\ m.topic = s.topic
                /\ m.key = serialize(key_serializer, s.key, s.topic, TRUE).out
                /\ key_serializer = "Serializer" => m.key = s.key

\* A tombstone sent through a framing key serializer has been dispatched and
\* consumed.
C1_Witness ==
    \E s \in Range(sends) :
        /\ s.value = None
        /\ key_serializer = "FramingSerializer"
        /\ Dispatched(s.id)
        /\ Consumed(s.id)

DefaultsOnly ==
    /\ pc # "init"
    /\ userConfig = BootstrapOnly
    /\ value_serializer = "Serializer"
    /\ key_serializer = "Serializer"
    /\ success_callbacks = <<>>
    /\ error_callbacks = <<>>

\* The caller is back from a flush() without timeout, or from a sync send,
\* that ended normally.
FlushedNormally ==
    /\ pc = "idle"
    /\ result.exc = "None"
    /\ \/ result.op = "flush" /\ result.timeout = -1
       \/ result.op = "produce" /\ sends[Len(sends)].sync

\* C2: with a Producer built with defaults only, a send of a byte key k and a
\* byte value v is enqueued, every copy of its message carries the topic, k
\* and v, and once a flush (or the sync send) has returned its outcome has
\* been dispatched once, a Success outcome being a consumed message.
C2_RoundTrip ==
    DefaultsOnly =>
        \A s \in Range(sends) :
            s.key.type = "bytes" /\ s.value.type = "bytes" =>
                /\ s.enqueued
                /\ \A m \in Copies(s.id) :
                       m.topic = s.topic /\ m.key = s.key /\ m.value = s.value
                /\ FlushedNormally =>
                       /\ DispatchCount(s.id) = 1
                       /\ \A d \in Range(dispatched) :
                              d.msg.id = s.id /\ d.err = NoError => Consumed(s.id)

\* Scenario A: a defaults-only producer is back from a sync send whose Success
\* outcome was dispatched.
C2_Witness ==
    /\ DefaultsOnly
    /\ FlushedNormally
    /\ result.op = "produce"
    /\ \E d \in Range(dispatched) :
           /\ d.msg.id = Len(sends)
           /\ d.err = NoError
           /\ d.msg.value.type = "bytes"
           /\ Consumed(d.msg.id)

\* C3: every message enqueued by a send made before the exit hook ran gets
\* exactly one dispatcher invocation: never two, and never zero once the
\* process has exited.
C3_ExactlyOnce ==
    \A s \in Range(sends) :
        s.enqueued /\ ~s.closed =>
            /\ DispatchCount(s.id) <= 1
            /\ pc = "terminated" => DispatchCount(s.id) = 1

\* C4: with max.in.flight = 1, which is what the client gets unless the
\* caller overrides it, two messages of one topic-partition that both succeed
\* are dispatched in the order in which they were enqueued.
C4_Ordering ==
    pc # "init" /\ ("max.in.flight" \notin DOMAIN userConfig
                    \/ implConfig["max.in.flight"] = "1") =>
        \A i, j \in DOMAIN dispatched :
            /\ i < j
            /\ dispatched[i].err = NoError
            /\ dispatched[j].err = NoError
            /\ SamePartition(dispatched[i].msg, dispatched[j].msg)
            => dispatched[i].msg.id < dispatched[j].msg.id

\* Two messages of one partition were both delivered and dispatched with one
\* request in flight.
C4_Witness ==
    /\ pc # "init"
    /\ implConfig["max.in.flight"] = "1"
    /\ Len(dispatched) = 2
    /\ dispatched[1].err = NoError
    /\ dispatched[2].err = NoError
    /\ SamePartition(dispatched[1].msg, dispatched[2].msg)

\* C5: the exit hook is registered at construction and its flush waits
\* without timeout, so that when the process has exited every message
\* enqueued with sync=false before the hook ran has had its outcome
\* dispatched.
C5_ExitFlush ==
    /\ pc # "init" => atexit_registered
    /\ pc = "terminated" =>
           \A s \in Range(sends) :
               s.enqueued /\ ~s.sync /\ ~s.closed => Dispatched(s.id)

LastSend == sends[Len(sends)]

\* A step of produce() that enqueues.
Enqueues == Len(sends') = Len(sends) + 1 /\ sends'[Len(sends')].enqueued

\* C6: a send leaves its message queued locally and undelivered; with
\* sync=true it then enters a flush without timeout and returns only from that
\* flush, which ends normally only when nothing is queued or unserved; with
\* sync=false it returns at once and no flush is made.
C6_SyncAsync ==
    /\ [](pc = "flush" /\ flushCtx = "produce" => LastSend.sync /\ LastSend.enqueued)
    /\ [][Enqueues =>
            /\ \E m \in Range(queue') : m.id = Len(sends')
            /\ reports' = reports /\ dispatched' = dispatched /\ topicLog' = topicLog
            /\ IF sends'[Len(sends')].sync
               THEN /\ pc' = "flush" /\ flushCtx' = "produce" /\ implTimeout' = -1
                    /\ result' = result
               ELSE /\ pc' = "idle" /\ flushCtx' = "none"
                    /\ result' = Ok("produce")]_vars
    /\ [][pc = "flush" /\ flushCtx = "produce" /\ pc' = "idle" /\ result'.exc = "None" =>
            queue = <<>> /\ reports = <<>> /\ result'.op = "produce"]_vars

\* A sync send has returned with its outcome dispatched, and the async send
\* after it has returned with its message still queued.
C6_Witness ==
    /\ Len(sends) = 2
    /\ sends[1].sync /\ Dispatched(1)
    /\ ~sends[2].sync /\ sends[2].enqueued
    /\ pc = "idle" /\ result = Ok("produce")
    /\ \E m \in Range(queue) : m.id = 2

\* C7: the configuration of the client binds the delivery, error and throttle
\* callbacks to the Producer's handlers whatever the caller configured, and
\* every delivery report served went to the Producer's dispatcher.
C7_ReservedCallbacks ==
    pc # "init" =>
        /\ implConfig["on_delivery"] = "Producer._on_delivery"
        /\ implConfig["error_cb"] = "Producer._on_error"
        /\ implConfig["throttle_cb"] = "Producer._on_throttle"
        /\ \A s \in Range(sends) :
               s.enqueued =>
                   \/ \E m \in Range(queue) : m.id = s.id
                   \/ \E r \in Range(reports) : r.msg.id = s.id
                   \/ Dispatched(s.id)

\* Scenario C: the caller tried to override the delivery callback and an
\* outcome was dispatched.
C7_Witness ==
    /\ "on_delivery" \in DOMAIN userConfig
    /\ userConfig["on_delivery"] = "user_cb"
    /\ dispatched # <<>>

DocumentedDefaults ==
    /\ DEFAULT_CONFIG["acks"] = "all"
    /\ DEFAULT_CONFIG["max.in.flight"] = "1"
    /\ DEFAULT_CONFIG["queue.buffering.max.ms"] = "100"
    /\ DEFAULT_CONFIG["statistics.interval.ms"] = "15000"
    /\ DEFAULT_CONFIG["client.id"] = HostName

\* The client's configuration is the right-biased merge outside the keys in
\* reserved.
MergedOutside(reserved) ==
    /\ DocumentedDefaults
    /\ (DOMAIN DEFAULT_CONFIG) \cup (DOMAIN userConfig) \subseteq DOMAIN implConfig
    /\ \A k \in ((DOMAIN DEFAULT_CONFIG) \cup (DOMAIN userConfig)) \ reserved :
           implConfig[k] = IF k \in DOMAIN userConfig THEN userConfig[k]
                           ELSE DEFAULT_CONFIG[k]

\* C8, as stated: outside the delivery, error and throttle callback keys the
\* client gets the caller's value of a key the caller supplies and the
\* documented default otherwise, and no key is lost.
C8_MergeThreeReserved ==
    pc # "init" => MergedOutside({"on_delivery", "error_cb", "throttle_cb"})

\* C8, amended: outside the four callback keys the Producer sets (delivery,
\* error, throttle and statistics) the client gets the caller's value of a
\* key the caller supplies and the documented default otherwise, and no key is
\* lost.
C8_Merge ==
    pc # "init" =>
        MergedOutside({"on_delivery", "error_cb", "throttle_cb", "stats_cb"})

\* The caller overrode acks and left the buffering window alone.
C8_Witness ==
    /\ pc # "init"
    /\ "acks" \in DOMAIN userConfig
    /\ implConfig["acks"] = "1"
    /\ implConfig["queue.buffering.max.ms"] = "100"

ObserverCalls(list, i, id) ==
    { j \in DOMAIN obsCalls :
        obsCalls[j].list = list /\ obsCalls[j].idx = i /\ obsCalls[j].for = id }

\* C9: for a dispatched Failure outcome every registered error observer has
\* been invoked exactly once, with the message and the error, and no success
\* observer has been invoked for it.
C9_FailureDispatch ==
    \A d \in Range(dispatched) :
        d.err # NoError =>
            /\ \A i \in DOMAIN error_callbacks :
                   /\ Cardinality(ObserverCalls("error_callbacks", i, d.msg.id)) = 1
                   /\ \A j \in ObserverCalls("error_callbacks", i, d.msg.id) :
                          /\ obsCalls[j].first = "msg"
                          /\ obsCalls[j].msg = d.msg
                          /\ obsCalls[j].err = d.err
            /\ \A i \in DOMAIN success_callbacks :
                   ObserverCalls("success_callbacks", i, d.msg.id) = {}

\* C10: for a dispatched Success outcome every registered success observer has
\* been invoked with the delivered message.
C10_SuccessDispatch ==
    \A d \in Range(dispatched) :
        d.err = NoError =>
            \A i \in DOMAIN success_callbacks :
                \E j \in ObserverCalls("success_callbacks", i, d.msg.id) :
                    obsCalls[j].first = "msg" /\ obsCalls[j].msg = d.msg

\* The observers registered for the outcome d.
ObserversOf(d) == IF d.err = NoError THEN success_callbacks ELSE error_callbacks

ListOf(d) == IF d.err = NoError THEN "success_callbacks" ELSE "error_callbacks"

\* C11: for every dispatched outcome every observer registered for it has
\* been invoked, whether or not an observer before it raised, and no flush or
\* poll of the client, the one of the exit hook included, was ended by an
\* observer's exception.
C11_ObserverIsolation ==
    /\ \A d \in Range(dispatched) :
           \A i \in DOMAIN ObserversOf(d) :
               ObserverCalls(ListOf(d), i, d.msg.id) # {}
    /\ result.exc # "ObserverError"
    /\ hook # "ObserverError"

\* This step served a delivery report whose observer raised.
ObserverRaises ==
    /\ Len(obsCalls') > Len(obsCalls)
    /\ LET c == obsCalls'[Len(obsCalls')]
       IN  IF c.list = "error_callbacks"
           THEN error_callbacks[c.idx] = "raises"
           ELSE success_callbacks[c.idx] = "raises"

\* C12: no send, flush or poll of the caller raises because of a Failure
\* outcome: whenever an exception leaves the serving of delivery reports
\* inside a call of the caller, the outcome that was being dispatched is not
\* a Failure.
C12_FailureNotRaised ==
    [][ObserverRaises /\ hook' = hook /\ result'.exc = "ObserverError" =>
           dispatched'[Len(dispatched')].err = NoError]_vars

\* C13: a send made after the exit hook has run fails with a
\* ClosedProducerError and hands nothing to the client.
C13_ClosedProducer ==
    \A s \in Range(sends) :
        s.closed =>
            /\ s.exc = "ClosedProducerError"
            /\ ~s.enqueued
            /\ Copies(s.id) = {}

\* The key serializer or the value serializer fails on the send s.
SerializationFails(s) ==
    \/ ~serialize(key_serializer, s.key, s.topic, TRUE).ok
    \/ s.value # None /\ ~serialize(value_serializer, s.value, s.topic, FALSE).ok

\* A step of produce().
Sends == Len(sends') = Len(sends) + 1

\* C14: a send on which the key or the value serializer fails raises the
\* serialization error to its caller at once, with no flush even when
\* sync=true, hands nothing to the client, and no outcome is ever dispatched
\* for it.
C14_SerializationFailFast ==
    /\ [](\A s \in Range(sends) :
              SerializationFails(s) =>
                  /\ s.exc = "SerializationError"
                  /\ ~s.enqueued
                  /\ Copies(s.id) = {})
    /\ [][Sends /\ SerializationFails(sends'[Len(sends')]) =>
            /\ pc' = "idle"
            /\ result' = Raised("produce", "SerializationError")
            /\ UNCHANGED <<queue, reports, topicLog, dispatched, obsCalls>>]_vars

\* A sync send whose value the default serializer cannot encode and a send
\* whose key it cannot encode have both raised.
C14_Witness ==
    /\ pc = "idle"
    /\ Len(sends) = 2
    /\ sends[1].sync /\ sends[1].value.type = "str" /\ sends[1].key.type = "bytes"
    /\ sends[1].exc = "SerializationError"
    /\ sends[2].key.type = "str" /\ sends[2].value = None
    /\ result = Raised("produce", "SerializationError")

\* C15: a send the client rejects because its local queue is full raises the
\* client's error to the caller of the send; its message is held nowhere and
\* the queued messages are as they were.
C15_QueueFullPropagated ==
    /\ [](\A s \in Range(sends) :
              s.exc = "BufferError" => ~s.enqueued /\ Copies(s.id) = {})
    /\ [][Sends /\ QueueFull /\ ~SerializationFails(sends'[Len(sends')]) =>
            /\ sends'[Len(sends')].exc = "BufferError"
            /\ pc' = "idle"
            /\ result' = Raised("produce", "BufferError")
            /\ UNCHANGED <<queue, reports, topicLog, dispatched>>]_vars

\* A send was rejected with the queue full while an earlier message is still
\* queued.
C15_Witness ==
    /\ Len(sends) = 2
    /\ sends[1].enqueued
    /\ sends[2].exc = "BufferError"
    /\ result = Raised("produce", "BufferError")
    /\ \E m \in Range(queue) : m.id = 1

\* C16: inside a flush(timeout) of the caller the client's flush has the
\* timeout the caller supplied, zero included, and waits without timeout only
\* when the caller supplied none.
C16_FlushTimeout ==
    pc = "flush" /\ flushCtx = "caller" => implTimeout = flushArg

\* The client holds no message and no unserved delivery report.
Drained == queue = <<>> /\ reports = <<>>

\* C17: a flush of a Producer whose client holds nothing, the caller's or
\* the exit hook's, alone or while the other one is in progress, can return,
\* ends only by returning without error, and neither its call nor its return
\* dispatches an outcome or changes the state of the Producer or the client.
C17_IdempotentFlush ==
    /\ [](pc = "flush" /\ Drained => ENABLED FlushReturn)
    /\ [](hook = "flush" /\ Drained => ENABLED HookReturn)
    /\ [][Drained /\ pc = "idle" /\ pc' = "flush" /\ flushCtx' = "caller" =>
            UNCHANGED <<hook, fieldVars, implVars, histVars>>]_vars
    /\ [][Drained /\ pc = "flush" /\ pc' = "idle" =>
            /\ result'.exc = "None"
            /\ UNCHANGED <<hook, fieldVars, implVars, histVars>>]_vars
    /\ [][Drained /\ has_impl /\ hook' # hook =>
            /\ hook' = IF hook = "idle" THEN "flush" ELSE "done"
            /\ UNCHANGED <<callerVars, fieldVars, implVars, histVars>>]_vars

\* On a Producer that never sent, the caller is back without error from one
\* flush and inside the next, and the exit hook's flush has returned while
\* the caller was inside a flush.
C17_Witness ==
    /\ pc = "flush" /\ flushCtx = "caller"
    /\ result.op = "flush" /\ result.exc = "None"
    /\ hook = "done"
    /\ has_impl
    /\ sends = <<>> /\ dispatched = <<>> /\ Drained

\* C18: poll(timeout) hands the client the caller's timeout, zero included,
\* and 1 only when the caller supplied none.
C18_PollTimeout ==
    result.op = "poll" =>
        result.timeout = IF result.arg = -1 THEN 1 ELSE result.arg

\* C19: a Producer whose exit hook is registered holds a client, and the exit
\* hook never fails for lack of one.
C19_HookHasTransport ==
    /\ atexit_registered => has_impl
    /\ hook # "AttributeError"

\* C20: when a sync send has returned normally, the outcome of every message
\* enqueued so far, by this send or by an earlier sync or async one, has been
\* dispatched.
C20_SyncDrains ==
    /\ pc = "idle"
    /\ result.op = "produce" /\ result.exc = "None"
    /\ LastSend.sync
    => \A s \in Range(sends) : s.enqueued => DispatchCount(s.id) = 1

\* A sync send has returned after an async send, and both outcomes have been
\* dispatched.
C20_Witness ==
    /\ pc = "idle"
    /\ result = Ok("produce")
    /\ Len(sends) = 2
    /\ ~sends[1].sync /\ sends[1].enqueued
    /\ sends[2].sync /\ sends[2].enqueued
    /\ Dispatched(1) /\ Dispatched(2)

====
